---------------------------- MODULE Spec2Model ----------------------------
(* Model of Visualize_Cardiff_Weather_Data.py: a Streamlit page that is    *)
(* re-executed from top to bottom after every widget interaction.  The     *)
(* state is the widget values kept by the framework, the module-level      *)
(* tables built at load time (fields, colorsets, global_epw) and what the  *)
(* last execution of the script put on the page.  One action per widget:   *)
(* the widget takes a new value and the whole script runs again.           *)
EXTENDS Integers, Sequences, FiniteSets, TLC

(***************************************************************************)
(* Bounds of the model                                                     *)
(***************************************************************************)
\* number of widget interactions (script reruns) after the first run
MaxRuns == 2
\* how many of the EPW variables are offered by the selectors / checkboxes
NumFields == 3

(***************************************************************************)
(* Python values                                                           *)
(***************************************************************************)
\* None and a present value, as sequences of length 0 and 1
None == <<>>
Some(x) == <<x>>

Str(s) == [t |-> "str", s |-> s]
Float(v) == [t |-> "float", v |-> v]

\* Python truth value of a str or of a float
Truthy(x) == IF x.t = "str" THEN Len(x.s) > 0 ELSE x.v # 0

\* list.reverse()
Reverse(s) == [i \in 1..Len(s) |-> s[Len(s) + 1 - i]]

Digits == <<"0", "1", "2", "3", "4", "5", "6", "7", "8", "9">>
IsDigit(c) == \E d \in 1..10 : Digits[d] = c
DigitVal(c) == (CHOOSE d \in 1..10 : Digits[d] = c) - 1

RECURSIVE DigitsVal(_)
DigitsVal(s) ==
    IF Len(s) = 0 THEN 0
    ELSE 10 * DigitsVal(SubSeq(s, 1, Len(s) - 1)) + DigitVal(s[Len(s)])

\* float(text) on the texts of the model (digits, signs and the letter a): an
\* optional sign followed by at least one digit parses to that number,
\* anything else raises ValueError
ParseFloat(s) ==
    LET signed == Len(s) > 0 /\ s[1] \in {"-", "+"}
        body == IF signed THEN Tail(s) ELSE s
        ok == Len(body) > 0 /\ \A i \in 1..Len(body) : IsDigit(body[i])
    IN  IF ~ok THEN [ok |-> FALSE, v |-> 0]
        ELSE [ok |-> TRUE,
              v |-> IF signed /\ s[1] = "-" THEN 0 - DigitsVal(body)
                    ELSE DigitsVal(body)]

(***************************************************************************)
(* Module-level tables: fields, colorsets, global_epw                      *)
(***************************************************************************)
FirstField == 6
LastField == 33

\* EPWFields._fields[i]['name'].name for i in range(6, 34)
FieldNames ==
    <<"Dry Bulb Temperature", "Dew Point Temperature", "Relative Humidity",
      "Atmospheric Station Pressure", "Extraterrestrial Horizontal Radiation",
      "Extraterrestrial Direct Normal Radiation",
      "Horizontal Infrared Radiation Intensity", "Global Horizontal Radiation",
      "Direct Normal Radiation", "Diffuse Horizontal Radiation",
      "Global Horizontal Illuminance", "Direct Normal Illuminance",
      "Diffuse Horizontal Illuminance", "Zenith Luminance", "Wind Direction",
      "Wind Speed", "Total Sky Cover", "Opaque Sky Cover", "Visibility",
      "Ceiling Height", "Present Weather Observation", "Present Weather Codes",
      "Precipitable Water", "Aerosol Optical Depth", "Snow Depth",
      "Days Since Last Snowfall", "Albedo", "Liquid Precipitation Depth">>

\* get_fields starting one field late, range(7, 34)
get_fields_from_seven ==
    [keys |-> Tail(FieldNames),
     num |-> [n \in {FieldNames[i - FirstField + 1] :
                        i \in (FirstField + 1)..LastField}
                 |-> CHOOSE i \in FirstField..LastField :
                        FieldNames[i - FirstField + 1] = n]]

\* the dictionary name -> field number, in insertion order: keys and values
get_fields ==
    [keys |-> FieldNames,
     num |-> [n \in {FieldNames[i - FirstField + 1] : i \in FirstField..LastField}
                 |-> CHOOSE i \in FirstField..LastField :
                        FieldNames[i - FirstField + 1] = n]]

\* the variables a selector offers in the model: the first NumFields keys
Selectable(f) == {f.keys[k] : k \in 1..NumFields}

ColorsetNames ==
    <<"Original", "Nuanced", "Annual_comfort", "Benefit", "Benefit_harm",
      "Black_to_white", "Blue_green_red", "Cloud_cover", "Cold_sensation",
      "Ecotect", "Energy_balance", "Energy_balance_storage", "Glare_study",
      "Harm", "Heat_sensation", "Multi_colored", "Multicolored_2",
      "Multicolored_3", "Openstudio_palette", "Peak_load_balance",
      "Shade_benefit", "Shade_benefit_harm", "Shade_harm", "Shadow_study",
      "Therm", "Thermal_comfort", "View_study">>

\* the colorsets followed by the model: the first option, which has ten
\* colours, and a two-colour one
ColorsetOptions == {"Original", "Black_to_white"}

\* The colours of a colorset come from the plotting library; a colour is
\* identified by its colorset and its position in it.
ColorCount(name) == IF name = "Black_to_white" THEN 2 ELSE 10
LoadColorsets ==
    [name \in ColorsetOptions |-> [k \in 1..ColorCount(name) |-> <<name, k>>]]

\* The hours of the year the model follows, as <<month, day, hour>>
SampleTimes ==
    <<<<1, 1, 0>>, <<7, 15, 12>>, <<7, 15, 13>>, <<12, 31, 23>>>>

\* the value of EPW field f at the i-th followed hour
EpwValue(f, i) == ((f * 5 + i * 9) % 29) - 6

\* the field number behind a variable name (epw.dry_bulb_temperature and the
\* like)
FieldOf(name) ==
    CHOOSE i \in FirstField..LastField : FieldNames[i - FirstField + 1] = name

\* the fields whose series the model follows: the ones the selectors offer
\* and the ones the script reads by name
FollowedFields ==
    FirstField..(FirstField + NumFields - 1) \cup
    {FieldOf(n) : n \in {"Dry Bulb Temperature", "Relative Humidity",
                         "Direct Normal Radiation", "Wind Direction",
                         "Wind Speed"}}

\* EPW(epw_path): one hourly collection per field number
DataType(f) == FieldNames[f - FirstField + 1]
LoadEPW ==
    [data |-> [f \in FollowedFields |->
                 [header |-> [data_type |-> DataType(f), unit |-> "native"],
                  values |-> [i \in 1..Len(SampleTimes) |->
                                 [time |-> SampleTimes[i], v |-> EpwValue(f, i)]]]],
     city |-> "Cardiff"]


(***************************************************************************)
(* Helpers defined by the script                                           *)
(***************************************************************************)
\* get_figure_config asking for another image format
get_figure_config_jpg(title) ==
    [toImageButtonOptions |->
        [format |-> "jpg", filename |-> title, height |-> None,
         width |-> None, scale |-> 1]]

get_figure_config(title) ==
    [toImageButtonOptions |->
        [format |-> "png", filename |-> title, height |-> None,
         width |-> None, scale |-> 1]]

\* get_colors reversing the stored colorset itself instead of a copy
get_colors_in_place(switch, global_colorset, cs) ==
    IF switch
    THEN [colors |-> Reverse(cs[global_colorset]),
          colorsets |-> [cs EXCEPT ![global_colorset] = Reverse(@)]]
    ELSE [colors |-> cs[global_colorset], colorsets |-> cs]

\* get_colors reversing all but the last colour
get_colors_partial_reverse(switch, global_colorset, cs) ==
    IF switch
    THEN [colors |-> Reverse(SubSeq(cs[global_colorset], 1,
                                    Len(cs[global_colorset]) - 1))
                     \o <<cs[global_colorset][Len(cs[global_colorset])]>>,
          colorsets |-> cs]
    ELSE [colors |-> cs[global_colorset], colorsets |-> cs]

\* get_colors reads the module-level colorsets; the table after the call is
\* returned next to the colours so that a write to it would be seen
get_colors(switch, global_colorset, cs) ==
    IF switch
    THEN [colors |-> Reverse(cs[global_colorset]), colorsets |-> cs]
    ELSE [colors |-> cs[global_colorset], colorsets |-> cs]

(***************************************************************************)
(* Library calls made by the script                                        *)
(***************************************************************************)
AnalysisPeriod(st_month, st_day, st_hour, end_month, end_day, end_hour) ==
    [st_month |-> st_month, st_day |-> st_day, st_hour |-> st_hour,
     end_month |-> end_month, end_day |-> end_day, end_hour |-> end_hour]

HourOfYearKey(m, d, h) == (m * 100 + d) * 100 + h

\* an hour belongs to the period when it lies between the start and the end
\* time (around the end of the year when the period is reversed) and its hour
\* of day lies between the start and the end hour (overnight when reversed)
IsTimeIncluded(ap, t) ==
    LET st == HourOfYearKey(ap.st_month, ap.st_day, ap.st_hour)
        en == HourOfYearKey(ap.end_month, ap.end_day, ap.end_hour)
        k == HourOfYearKey(t[1], t[2], t[3])
        in_days == IF st <= en THEN st <= k /\ k <= en ELSE k >= st \/ k <= en
        in_hours == IF ap.st_hour <= ap.end_hour
                    THEN ap.st_hour <= t[3] /\ t[3] <= ap.end_hour
                    ELSE t[3] >= ap.st_hour \/ t[3] <= ap.end_hour
    IN  in_days /\ in_hours

\* data.filter_by_analysis_period(lb_ap): a new collection
filter_by_analysis_period(data, ap) ==
    LET keep(x) == IsTimeIncluded(ap, x.time)
    IN  [header |-> data.header, values |-> SelectSeq(data.values, keep)]

\* The conditional statements typed in the model.  The library evaluates the
\* statement with the hourly value bound to a; a statement naming another
\* variable is rejected with ValueError, and a statement no value satisfies
\* fails the non-empty assertion of the resulting collection.
CondStatements == {"", "a>10", "a>-5 and a<10", "a>100", "b>10"}

CondVariable(stmt) == IF stmt = "b>10" THEN "b" ELSE "a"

CondEval(stmt, a) ==
    CASE stmt = "a>10" -> a > 10
      [] stmt = "a>-5 and a<10" -> a > -5 /\ a < 10
      [] stmt = "a>100" -> a > 100
      [] OTHER -> FALSE

\* data.filter_by_conditional_statement(statement)
filter_by_conditional_statement(data, stmt) ==
    LET keep(x) == CondEval(stmt, x.v)
        vals == SelectSeq(data.values, keep)
    IN  IF CondVariable(stmt) # "a"
        THEN [exc |-> "ValueError", coll |-> data]
        ELSE IF Len(vals) = 0
        THEN [exc |-> "AssertionError", coll |-> data]
        ELSE [exc |-> "none",
              coll |-> [header |-> data.header, values |-> vals]]

\* LegendParameters(colors=colors): min and max start unset
LegendParameters(colors) == [colors |-> colors, min |-> None, max |-> None]

(***************************************************************************)
(* Hourly Data tab                                                         *)
(***************************************************************************)
StrResult(s, cs) == [ret |-> [type |-> "str", s |-> s], colorsets |-> cs]

\* lines 163-172: the figure once the three inputs have been accepted
HourlyPlot(filtered_data, fmin, fmax, global_colorset, switch, cs) ==
    LET gc == get_colors(switch, global_colorset, cs)
        lb_lp0 == LegendParameters(gc.colors)
        lb_lp1 == IF Truthy(fmin) THEN [lb_lp0 EXCEPT !.min = Some(fmin.v)]
                  ELSE lb_lp0
        lb_lp == IF Truthy(fmax) THEN [lb_lp1 EXCEPT !.max = Some(fmax.v)]
                 ELSE lb_lp1
    IN  [ret |-> [type |-> "Figure", kind |-> "HourlyPlot",
                  data |-> filtered_data.values,
                  legend_parameters |-> lb_lp,
                  title |-> filtered_data.header.data_type,
                  layout |-> <<>>],
         colorsets |-> gc.colorsets]

\* the conversion without the test for an empty text
ConvertBound_no_empty_test(b) ==
    LET p == ParseFloat(b.s)
    IN  IF p.ok THEN [ok |-> TRUE, v |-> Float(p.v)]
        ELSE [ok |-> FALSE, v |-> b]

\* lines 151-161: float() of a non-empty text, or the error message
ConvertBound(b) ==
    IF ~Truthy(b) THEN [ok |-> TRUE, v |-> b]
    ELSE LET p == ParseFloat(b.s)
         IN  IF p.ok THEN [ok |-> TRUE, v |-> Float(p.v)]
             ELSE [ok |-> FALSE, v |-> b]

\* get_hourly_data_figure converting Max before Min
get_hourly_data_figure_max_first(data, global_colorset, conditional_statement, min, max, start_month, start_day, start_hour, end_month, end_day, end_hour, switch, cs) ==
    LET lb_ap == AnalysisPeriod(start_month, start_day, start_hour,
                                end_month, end_day, end_hour)
        by_period == filter_by_analysis_period(data, lb_ap)
        by_cond == filter_by_conditional_statement(data, conditional_statement)
        filtered_data == IF conditional_statement # "" THEN by_cond.coll
                         ELSE by_period
        cmin == ConvertBound(min)
        cmax == ConvertBound(max)
    IN  IF conditional_statement # "" /\ by_cond.exc = "AssertionError"
        THEN StrResult("No values found for that conditonal statement", cs)
        ELSE IF conditional_statement # "" /\ by_cond.exc = "ValueError"
        THEN StrResult("Invalid conditonal statement", cs)
        ELSE IF ~cmax.ok THEN StrResult("Invalid maximum value", cs)
        ELSE IF ~cmin.ok THEN StrResult("Invalid minimum value", cs)
        ELSE HourlyPlot(filtered_data, cmin.v, cmax.v, global_colorset,
                        switch, cs)

get_hourly_data_figure(data, global_colorset, conditional_statement, min, max, start_month, start_day, start_hour, end_month, end_day, end_hour, switch, cs) ==
    LET lb_ap == AnalysisPeriod(start_month, start_day, start_hour,
                                end_month, end_day, end_hour)
        by_period == filter_by_analysis_period(data, lb_ap)
        by_cond == filter_by_conditional_statement(data, conditional_statement)
        filtered_data == IF conditional_statement # "" THEN by_cond.coll
                         ELSE by_period
        cmin == ConvertBound(min)
        cmax == ConvertBound(max)
    IN  IF conditional_statement # "" /\ by_cond.exc = "AssertionError"
        THEN StrResult("No values found for that conditonal statement", cs)
        ELSE IF conditional_statement # "" /\ by_cond.exc = "ValueError"
        THEN StrResult("Invalid conditonal statement", cs)
        ELSE IF ~cmin.ok THEN StrResult("Invalid minimum value", cs)
        ELSE IF ~cmax.ok THEN StrResult("Invalid maximum value", cs)
        ELSE HourlyPlot(filtered_data, cmin.v, cmax.v, global_colorset,
                        switch, cs)

(***************************************************************************)
(* One execution of the script: what has been put on the page so far, the  *)
(* exception that stopped it, and the module-level tables as the executed  *)
(* statements left them                                                    *)
(***************************************************************************)
StartOfRun(cs, epw) ==
    [charts |-> <<>>, tables |-> <<>>, exc |-> "none", colorsets |-> cs,
     epw |-> epw, hourly_data_figure |-> None, degree_days_text |-> None,
     panels |-> {"global"}]

\* the widgets of a control panel have been created by this execution
control_panel(o, name) == [o EXCEPT !.panels = @ \cup {name}]

\* st.plotly_chart(figure, config=config)
plotly_chart(o, name, figure, config) ==
    [o EXCEPT !.charts = Append(@, [chart |-> name, figure |-> figure,
                                    config |-> config])]

\* figure.update_layout(...): the options the script overrides
update_layout(figure, t, b, legend) ==
    [figure EXCEPT !.layout = [margin_t |-> t, margin_b |-> b,
                               legend |-> legend,
                               plot_bgcolor |-> "bgcolor"]]

\* lines 175-213
HourlyDataTab(w, f, o) ==
    IF o.exc # "none" THEN o
    ELSE
    LET hourly_data == o.epw.data[f.num[w.hourly_data]]
        r == get_hourly_data_figure(
                 hourly_data, w.global_colorset_selector,
                 w.hourly_data_conditonal_statement,
                 Str(w.hourly_data_min), Str(w.hourly_data_max),
                 w.hourly_data_start_month, w.hourly_data_start_day,
                 w.hourly_data_start_hour, w.hourly_data_end_month,
                 w.hourly_data_end_day, w.hourly_data_end_hour,
                 w.color_switch, o.colorsets)
        o1 == [control_panel(o, "hourly") EXCEPT
                  !.colorsets = r.colorsets,
                  !.hourly_data_figure = Some(r.ret)]
    IN  IF r.ret.type = "str"
        \* a str has no update_layout
        THEN [o1 EXCEPT !.exc = "AttributeError"]
        ELSE plotly_chart(o1, "hourly_data_figure",
                          update_layout(r.ret, 60, 0, FALSE),
                          get_figure_config(hourly_data.header.data_type))

(***************************************************************************)
(* Daily Data tab                                                          *)
(***************************************************************************)
RECURSIVE SumValues(_)
SumValues(vals) ==
    IF Len(vals) = 0 THEN 0 ELSE vals[1].v + SumValues(Tail(vals))

DayOf(t) == <<t[1], t[2]>>
MonthOf(t) == t[1]
KeyOf(by, t) == IF by = "day" THEN DayOf(t) ELSE MonthOf(t)

\* the values of a collection grouped by day or by month: sum and count
\* per group
GroupBy(vals, by) ==
    LET keys == {KeyOf(by, vals[i].time) : i \in 1..Len(vals)}
    IN  [k \in keys |->
            LET in_group(x) == KeyOf(by, x.time) = k
                grp == SelectSeq(vals, in_group)
            IN  [sum |-> SumValues(grp), count |-> Len(grp)]]

\* data.average_daily(), data.average_monthly(), data.total_monthly()
average_daily(data) ==
    [header |-> data.header, values |-> GroupBy(data.values, "day")]
average_monthly(data) ==
    [header |-> data.header, values |-> GroupBy(data.values, "month")]
total_monthly(data) ==
    LET g == GroupBy(data.values, "month")
    IN  [header |-> data.header,
         values |-> [m \in DOMAIN g |-> [sum |-> g[m].sum, count |-> 1]]]

\* colors[9]
TenthColor(colors) == colors[10]
HasTenthColor(colors) == Len(colors) >= 10

\* lines 226-228
get_hourly_line_chart_figure(data, switch, global_colorset, selection, cs) ==
    LET gc == get_colors(switch, global_colorset, cs)
    IN  IF ~HasTenthColor(gc.colors)
        THEN [exc |-> "IndexError", ret |-> None, colorsets |-> gc.colorsets]
        ELSE [exc |-> "none",
              ret |-> [type |-> "Figure", kind |-> "line_chart",
                       data |-> data.values, color |-> TenthColor(gc.colors),
                       title |-> selection, layout |-> <<>>],
              colorsets |-> gc.colorsets]

\* lines 242-245
get_daily_chart_figure(data, switch, global_colorset, cs) ==
    LET gc == get_colors(switch, global_colorset, cs)
        daily == average_daily(data)
    IN  IF ~HasTenthColor(gc.colors)
        THEN [exc |-> "IndexError", ret |-> None, colorsets |-> gc.colorsets]
        ELSE [exc |-> "none",
              ret |-> [type |-> "Figure", kind |-> "bar_chart",
                       data |-> daily.values, color |-> TenthColor(gc.colors),
                       title |-> daily.header.data_type, layout |-> <<>>],
              colorsets |-> gc.colorsets]

\* lines 222-249
DailyDataTab(w, f, o) ==
    IF o.exc # "none" THEN o
    ELSE
    LET daily_data_chart_data == o.epw.data[f.num[w.daily_data_selected]]
        r1 == get_hourly_line_chart_figure(
                  daily_data_chart_data, w.color_switch,
                  w.global_colorset_selector, w.daily_data_selected,
                  o.colorsets)
        o0 == control_panel(o, "daily")
        o1 == plotly_chart([o0 EXCEPT !.colorsets = r1.colorsets],
                           "hourly_line_chart_figure",
                           update_layout(r1.ret, 96, 0, TRUE),
                           get_figure_config(w.daily_data_selected))
        r2 == get_daily_chart_figure(daily_data_chart_data, w.color_switch,
                                     w.global_colorset_selector, o1.colorsets)
    IN  IF r1.exc # "none"
        THEN [o0 EXCEPT !.exc = r1.exc, !.colorsets = r1.colorsets]
        ELSE IF r2.exc # "none"
        THEN [o1 EXCEPT !.exc = r2.exc, !.colorsets = r2.colorsets]
        ELSE plotly_chart(
                 [o1 EXCEPT !.colorsets = r2.colorsets], "daily_chart_figure",
                 update_layout(r2.ret, 60, 0, FALSE),
                 get_figure_config(daily_data_chart_data.header.data_type))

(***************************************************************************)
(* Monthly Data tab                                                        *)
(***************************************************************************)

\* lines 258-260
get_diurnal_average_chart_figure(epw, global_colorset, switch, cs) ==
    LET gc == get_colors(switch, global_colorset, cs)
    IN  [ret |-> [type |-> "Figure", kind |-> "epw_diurnal_average_chart",
                  data |-> epw.data[FieldOf("Dry Bulb Temperature")].values,
                  colors |-> gc.colors, layout |-> <<>>],
         colorsets |-> gc.colorsets]

\* lines 278-280
get_hourly_diurnal_average_chart_figure(data, switch, global_colorset, cs) ==
    LET gc == get_colors(switch, global_colorset, cs)
    IN  IF ~HasTenthColor(gc.colors)
        THEN [exc |-> "IndexError", ret |-> None, colorsets |-> gc.colorsets]
        ELSE [exc |-> "none",
              ret |-> [type |-> "Figure", kind |-> "diurnal_average_chart",
                       data |-> average_monthly(data).values,
                       color |-> TenthColor(gc.colors),
                       title |-> data.header.data_type, layout |-> <<>>],
              colorsets |-> gc.colorsets]

\* lines 337-344: one monthly collection per checked entry, in field order
RECURSIVE BarChartData(_, _, _, _, _)
BarChartData(f, epw, selection, data_type, i) ==
    IF i > Len(selection) THEN <<>>
    ELSE LET var == epw.data[f.num[f.keys[i]]]
             rest == BarChartData(f, epw, selection, data_type, i + 1)
         IN  IF ~selection[i] THEN rest
             ELSE IF data_type = "Monthly Average"
             THEN <<average_monthly(var)>> \o rest
             ELSE IF data_type = "Monthly Total"
             THEN <<total_monthly(var)>> \o rest
             ELSE rest

\* get_bar_chart_figure taking the monthly average whatever the data type
get_bar_chart_figure_average_only(f, epw, selection, data_type, switch, stack, global_colorset, cs) ==
    LET gc == get_colors(switch, global_colorset, cs)
        data == BarChartData(f, epw, selection, "Monthly Average", 1)
        lb_lp == LegendParameters(gc.colors)
    IN  [ret |-> [type |-> "Figure", kind |-> "MonthlyChart", data |-> data,
                  legend_parameters |-> lb_lp, stack |-> stack,
                  layout |-> <<>>],
         colorsets |-> gc.colorsets]

\* lines 334-348
get_bar_chart_figure(f, epw, selection, data_type, switch, stack, global_colorset, cs) ==
    LET gc == get_colors(switch, global_colorset, cs)
        data == BarChartData(f, epw, selection, data_type, 1)
        lb_lp == LegendParameters(gc.colors)
    IN  [ret |-> [type |-> "Figure", kind |-> "MonthlyChart", data |-> data,
                  legend_parameters |-> lb_lp, stack |-> stack,
                  layout |-> <<>>],
         colorsets |-> gc.colorsets]

\* bar_chart_selection.count(True)
CountTrue(selection) == Cardinality({i \in 1..Len(selection) : selection[i]})

\* lines 258-356
MonthlyDataTab(w, f, o) ==
    IF o.exc # "none" THEN o
    ELSE
    LET r1 == get_diurnal_average_chart_figure(
                  o.epw, w.global_colorset_selector, w.color_switch,
                  o.colorsets)
        o1 == plotly_chart([o EXCEPT !.colorsets = r1.colorsets],
                           "diurnal_average_chart_figure",
                           update_layout(r1.ret, 96, 54, TRUE),
                           get_figure_config("Dinurnal Chart_" \o o.epw.city))
        diurnal_average_chart_hourly_data ==
            o.epw.data[f.num[w.diurnal_average_chart_hourly_selected]]
        o1p == control_panel(o1, "diurnal")
        r2 == get_hourly_diurnal_average_chart_figure(
                  diurnal_average_chart_hourly_data, w.color_switch,
                  w.global_colorset_selector, o1.colorsets)
        o2 == plotly_chart(
                  [control_panel(o1p, "bar") EXCEPT !.colorsets = r2.colorsets],
                  "per_hour_line_chart_figure",
                  update_layout(r2.ret, 60, 54, FALSE),
                  get_figure_config(
                      diurnal_average_chart_hourly_data.header.data_type))
        r3 == get_bar_chart_figure(
                  f, o2.epw, w.bar_chart_selection, w.bar_chart_data_type,
                  w.color_switch, w.bar_chart_stack,
                  w.global_colorset_selector, o2.colorsets)
    IN  IF r2.exc # "none"
        THEN [o1p EXCEPT !.exc = r2.exc, !.colorsets = r2.colorsets]
        ELSE plotly_chart(
                 [o2 EXCEPT !.colorsets = r3.colorsets], "bar_chart_figure",
                 update_layout(r3.ret, 30, 0,
                               CountTrue(w.bar_chart_selection) # 1),
                 get_figure_config(w.bar_chart_data_type))

(***************************************************************************)
(* Degree Days tab                                                         *)
(***************************************************************************)
\* heating_degree_time / cooling_degree_time of one hourly temperature
heating_degree_time(t, base) == IF t < base THEN base - t ELSE 0
cooling_degree_time(t, base) == IF t > base THEN t - base ELSE 0

\* HourlyContinuousCollection.compute_function_aligned: a new collection
DegreeTime(data, base, heating, data_type) ==
    [header |-> [data_type |-> data_type, unit |-> "degC-hours"],
     values |-> [i \in 1..Len(data.values) |->
                    [time |-> data.values[i].time,
                     v |-> IF heating
                           THEN heating_degree_time(data.values[i].v, base)
                           ELSE cooling_degree_time(data.values[i].v, base)]]]

\* collection.convert_to_unit('degC-days'), in place on the collection: the
\* values stay the numerators and the unit carries the divisor 24
convert_to_unit(coll, unit) == [coll EXCEPT !.header.unit = unit]

\* get_degree_days_figure converting the unit of the EPW series itself
get_degree_days_figure_in_place(epw, heatbase, coolbase, stack, switch, global_colorset, cs) ==
    LET dbt == FieldOf("Dry Bulb Temperature")
        data == convert_to_unit(epw.data[dbt], "degC-days")
        hourly_heat == DegreeTime(data, heatbase, TRUE, "Heating Degree-Time")
        hourly_cool == DegreeTime(data, coolbase, FALSE, "Cooling Degree-Time")
        gc == get_colors(switch, global_colorset, cs)
        lb_lp == LegendParameters(gc.colors)
    IN  [ret |-> [type |-> "Figure", kind |-> "MonthlyChart",
                  data |-> <<total_monthly(hourly_cool),
                             total_monthly(hourly_heat)>>,
                  legend_parameters |-> lb_lp, stack |-> stack,
                  layout |-> <<>>],
         hourly_heat |-> hourly_heat, hourly_cool |-> hourly_cool,
         colorsets |-> gc.colorsets,
         epw |-> [epw EXCEPT !.data[dbt] = data]]

\* lines 371-381; data is global_epw.dry_bulb_temperature
get_degree_days_figure(epw, heatbase, coolbase, stack, switch, global_colorset, cs) ==
    LET data == epw.data[FieldOf("Dry Bulb Temperature")]
        hourly_heat == convert_to_unit(
                           DegreeTime(data, heatbase, TRUE, "Heating Degree-Time"),
                           "degC-days")
        hourly_cool == convert_to_unit(
                           DegreeTime(data, coolbase, FALSE, "Cooling Degree-Time"),
                           "degC-days")
        gc == get_colors(switch, global_colorset, cs)
        lb_lp == LegendParameters(gc.colors)
    IN  [ret |-> [type |-> "Figure", kind |-> "MonthlyChart",
                  data |-> <<total_monthly(hourly_cool),
                             total_monthly(hourly_heat)>>,
                  legend_parameters |-> lb_lp, stack |-> stack,
                  layout |-> <<>>],
         hourly_heat |-> hourly_heat, hourly_cool |-> hourly_cool,
         colorsets |-> gc.colorsets, epw |-> epw]

\* lines 367-387
DegreeDaysTab(w, f, o) ==
    IF o.exc # "none" THEN o
    ELSE
    LET r == get_degree_days_figure(
                 o.epw, w.degree_days_heat_base, w.degree_days_cool_base,
                 w.degree_days_stack, w.color_switch,
                 w.global_colorset_selector, o.colorsets)
        o1 == plotly_chart(
                  [control_panel(o, "degree") EXCEPT
                      !.colorsets = r.colorsets, !.epw = r.epw],
                  "degree_days_figure", update_layout(r.ret, 0, 0, FALSE),
                  get_figure_config("Degree days_" \o o.epw.city))
    IN  [o1 EXCEPT !.degree_days_text =
            Some([cool |-> SumValues(r.hourly_cool.values),
                  heat |-> SumValues(r.hourly_heat.values),
                  unit |-> r.hourly_cool.header.unit])]

(***************************************************************************)
(* Windrose tab                                                            *)
(***************************************************************************)
\* lines 411-420
get_windrose_figure(start_month, end_month, start_day, end_day, start_hour, end_hour, epw, global_colorset, switch, cs) ==
    LET gc == get_colors(switch, global_colorset, cs)
        lb_ap == AnalysisPeriod(start_month, start_day, start_hour,
                                end_month, end_day, end_hour)
        wind_dir == filter_by_analysis_period(
                        epw.data[FieldOf("Wind Direction")], lb_ap)
        wind_spd == filter_by_analysis_period(
                        epw.data[FieldOf("Wind Speed")], lb_ap)
        lb_lp == LegendParameters(gc.colors)
    IN  [ret |-> [type |-> "Figure", kind |-> "WindRose",
                  direction |-> wind_dir.values, speed |-> wind_spd.values,
                  legend_parameters |-> lb_lp, title |-> epw.city,
                  layout |-> <<>>],
         colorsets |-> gc.colorsets]

\* lines 397-424
WindroseTab(w, f, o) ==
    IF o.exc # "none" THEN o
    ELSE
    LET r == get_windrose_figure(
                 w.windrose_start_month, w.windrose_end_month,
                 w.windrose_start_day, w.windrose_end_day,
                 w.windrose_start_hour, w.windrose_end_hour, o.epw,
                 w.global_colorset_selector, w.color_switch, o.colorsets)
    IN  plotly_chart([control_panel(o, "windrose") EXCEPT
                         !.colorsets = r.colorsets], "windrose_figure",
                     update_layout(r.ret, 60, 0, FALSE),
                     get_figure_config("Windrose_" \o o.epw.city))

(***************************************************************************)
(* Psychrometric Chart tab                                                 *)
(***************************************************************************)
psy_strategy_options ==
    <<"Mass + Night Ventilation", "Occupant Use of Fans",
      "Capture Internal Heat", "Passive Solar Heating", "All">>

Strategies_misspelt_option(selected_strategy) ==
    CASE selected_strategy = "All" ->
            Some(<<"comfort", "evaporative_cooling", "mas_night_ventilation",
                   "occupant_use_of_fans", "capture_internal_heat",
                   "passive_solar_heating">>)
      [] selected_strategy = "Comfort" -> Some(<<"comfort">>)
      [] selected_strategy = "Evaporative Cooling" ->
            Some(<<"evaporative_cooling">>)
      [] selected_strategy = "Mass and Night Ventilation" ->
            Some(<<"mas_night_ventilation">>)
      [] selected_strategy = "Occupant Use of Fans" ->
            Some(<<"occupant_use_of_fans">>)
      [] selected_strategy = "Capture Internal Heat" ->
            Some(<<"capture_internal_heat">>)
      [] selected_strategy = "Passive Solar Heating" ->
            Some(<<"passive_solar_heating">>)
      [] OTHER -> None

\* lines 460-473: the strategies list, or unassigned (None) when no branch
\* of the chain matches
Strategies(selected_strategy) ==
    CASE selected_strategy = "All" ->
            Some(<<"comfort", "evaporative_cooling", "mas_night_ventilation",
                   "occupant_use_of_fans", "capture_internal_heat",
                   "passive_solar_heating">>)
      [] selected_strategy = "Comfort" -> Some(<<"comfort">>)
      [] selected_strategy = "Evaporative Cooling" ->
            Some(<<"evaporative_cooling">>)
      [] selected_strategy = "Mass + Night Ventilation" ->
            Some(<<"mas_night_ventilation">>)
      [] selected_strategy = "Occupant Use of Fans" ->
            Some(<<"occupant_use_of_fans">>)
      [] selected_strategy = "Capture Internal Heat" ->
            Some(<<"capture_internal_heat">>)
      [] selected_strategy = "Passive Solar Heating" ->
            Some(<<"passive_solar_heating">>)
      [] OTHER -> None

\* lb_psy.plot(data=, polygon_pmv=, strategies=, solar_data=): the arguments
\* left out keep the default None
PsyPlot(lb_psy, data, polygon_pmv, strategies, solar_data) ==
    [type |-> "Figure", kind |-> "PsychrometricChart", chart |-> lb_psy,
     data |-> data, polygon_pmv |-> polygon_pmv, strategies |-> strategies,
     solar_data |-> solar_data, layout |-> <<>>]

get_psy_chart_figure_polygons_with_data(epw, global_colorset, selected_strategy, load_data, draw_polygons, data, switch, cs) ==
    LET gc == get_colors(switch, global_colorset, cs)
        lb_lp == LegendParameters(gc.colors)
        lb_psy == [temperature |-> epw.data[FieldOf("Dry Bulb Temperature")].values,
                   humidity |-> epw.data[FieldOf("Relative Humidity")].values,
                   legend_parameters |-> lb_lp]
        strategies == Strategies(selected_strategy)
        pmv == Some("PolygonPMV")
        solar == Some(epw.data[FieldOf("Direct Normal Radiation")].values)
    IN  IF draw_polygons /\ strategies = None
        THEN [exc |-> "UnboundLocalError", ret |-> None,
              colorsets |-> gc.colorsets]
        ELSE [exc |-> "none",
              ret |-> IF load_data
                      THEN IF draw_polygons
                           THEN PsyPlot(lb_psy, data, pmv, strategies, solar)
                           ELSE PsyPlot(lb_psy, data, pmv, strategies, solar)
                      ELSE IF draw_polygons
                           THEN PsyPlot(lb_psy, None, pmv, strategies, solar)
                           ELSE PsyPlot(lb_psy, None, None, None, None),
              colorsets |-> gc.colorsets]

\* lines 455-488; data is None or a collection
get_psy_chart_figure(epw, global_colorset, selected_strategy, load_data, draw_polygons, data, switch, cs) ==
    LET gc == get_colors(switch, global_colorset, cs)
        lb_lp == LegendParameters(gc.colors)
        lb_psy == [temperature |-> epw.data[FieldOf("Dry Bulb Temperature")].values,
                   humidity |-> epw.data[FieldOf("Relative Humidity")].values,
                   legend_parameters |-> lb_lp]
        strategies == Strategies(selected_strategy)
        pmv == Some("PolygonPMV")
        solar == Some(epw.data[FieldOf("Direct Normal Radiation")].values)
    IN  IF draw_polygons /\ strategies = None
        THEN [exc |-> "UnboundLocalError", ret |-> None,
              colorsets |-> gc.colorsets]
        ELSE [exc |-> "none",
              ret |-> IF load_data
                      THEN IF draw_polygons
                           THEN PsyPlot(lb_psy, data, pmv, strategies, solar)
                           ELSE PsyPlot(lb_psy, data, None, None, None)
                      ELSE IF draw_polygons
                           THEN PsyPlot(lb_psy, None, pmv, strategies, solar)
                           ELSE PsyPlot(lb_psy, None, None, None, None),
              colorsets |-> gc.colorsets]

\* st.table(dataframe): the index of the table
table(o, name, index) ==
    [o EXCEPT !.tables = Append(@, [table |-> name, index |-> index])]

\* lines 435-492
PsychrometricTab(w, f, o) ==
    IF o.exc # "none" THEN o
    ELSE
    LET psy_data == IF w.psy_load_data
                    THEN Some(o.epw.data[f.num[w.psy_selected]].values)
                    ELSE None
        o0 == control_panel(IF w.psy_load_data
                            THEN control_panel(o, "psy_selected") ELSE o,
                            "psy")
        o1 == table(o0, "Passive Strategy Explanation",
                    SubSeq(psy_strategy_options, 1,
                           Len(psy_strategy_options) - 1))
        r == get_psy_chart_figure(
                 o1.epw, w.global_colorset_selector, w.psy_selected_strategy,
                 w.psy_load_data, w.psy_draw_polygons, psy_data,
                 w.color_switch, o1.colorsets)
    IN  IF r.exc # "none"
        THEN [o1 EXCEPT !.exc = r.exc, !.colorsets = r.colorsets]
        ELSE plotly_chart(
                 [o1 EXCEPT !.colorsets = r.colorsets], "psy_chart_figure",
                 update_layout(r.ret, 0, 0, FALSE),
                 get_figure_config("Psychrometric_chart_" \o o1.epw.city))

\* lines 501-532
Terminology(w, f, o) ==
    IF o.exc # "none" THEN o ELSE table(o, "Terminology", f.keys)

\* the script from top to bottom
Script(w, f, cs, epw) ==
    Terminology(w, f,
      PsychrometricTab(w, f,
        WindroseTab(w, f,
          DegreeDaysTab(w, f,
            MonthlyDataTab(w, f,
              DailyDataTab(w, f,
                HourlyDataTab(w, f, StartOfRun(cs, epw))))))))

(***************************************************************************)
(* Widgets                                                                 *)
(***************************************************************************)
\* the values the number inputs are given in the model
Months == {1, 7, 12}
Days == {1, 15, 31}
Hours == {0, 12, 23}
HeatBases == {18, 20}
CoolBases == {10, 23}

\* the texts typed into Min and Max
Texts ==
    {<<>>, <<"0">>, <<"5">>, <<"a">>, <<"-">>, <<"-", "5">>, <<"-", "0">>,
     <<"5", "0">>}

bar_chart_data_types == <<"Monthly Average", "Monthly Total">>

\* the value every widget call returns when the widget is created: value=,
\* index 0 of a selectbox, the empty text, an unchecked checkbox
DefaultWidgets(f) ==
    [global_colorset_selector |-> ColorsetNames[1],
     color_switch |-> FALSE,
     hourly_data |-> f.keys[1],
     hourly_data_conditonal_statement |-> "",
     hourly_data_min |-> <<>>,
     hourly_data_max |-> <<>>,
     hourly_data_start_month |-> 1, hourly_data_end_month |-> 12,
     hourly_data_start_day |-> 1, hourly_data_end_day |-> 31,
     hourly_data_start_hour |-> 0, hourly_data_end_hour |-> 23,
     daily_data_selected |-> f.keys[1],
     diurnal_average_chart_hourly_selected |-> f.keys[1],
     bar_chart_selection |->
         [i \in 1..Len(f.keys) |->
             f.keys[i] = "Dry Bulb Temperature"
             \/ f.keys[i] = "Dew Point Temperature"],
     bar_chart_data_type |-> bar_chart_data_types[1],
     bar_chart_stack |-> FALSE,
     degree_days_heat_base |-> 18, degree_days_cool_base |-> 23,
     degree_days_stack |-> FALSE,
     windrose_start_month |-> 1, windrose_end_month |-> 12,
     windrose_start_day |-> 1, windrose_end_day |-> 31,
     windrose_start_hour |-> 0, windrose_end_hour |-> 23,
     psy_load_data |-> FALSE,
     psy_selected |-> f.keys[1],
     psy_draw_polygons |-> FALSE,
     psy_selected_strategy |-> psy_strategy_options[1]]

\* the control panel that creates each widget
PanelOf(key) ==
    CASE key \in {"global_colorset_selector", "color_switch"} -> "global"
      [] key \in {"hourly_data", "hourly_data_conditonal_statement",
                  "hourly_data_min", "hourly_data_max",
                  "hourly_data_start_month", "hourly_data_end_month",
                  "hourly_data_start_day", "hourly_data_end_day",
                  "hourly_data_start_hour", "hourly_data_end_hour"} -> "hourly"
      [] key = "daily_data_selected" -> "daily"
      [] key = "diurnal_average_chart_hourly_selected" -> "diurnal"
      [] key \in {"bar_chart_selection", "bar_chart_data_type",
                  "bar_chart_stack"} -> "bar"
      [] key \in {"degree_days_heat_base", "degree_days_cool_base",
                  "degree_days_stack"} -> "degree"
      [] key \in {"windrose_start_month", "windrose_end_month",
                  "windrose_start_day", "windrose_end_day",
                  "windrose_start_hour", "windrose_end_hour"} -> "windrose"
      [] key = "psy_selected" -> "psy_selected"
      [] OTHER -> "psy"

HourlyPeriodKeys ==
    [m |-> {"hourly_data_start_month", "hourly_data_end_month"},
     d |-> {"hourly_data_start_day", "hourly_data_end_day"},
     h |-> {"hourly_data_start_hour", "hourly_data_end_hour"}]
WindrosePeriodKeys ==
    [m |-> {"windrose_start_month", "windrose_end_month"},
     d |-> {"windrose_start_day", "windrose_end_day"},
     h |-> {"windrose_start_hour", "windrose_end_hour"}]

\* the framework keeps the value of a widget from one execution to the next
\* only while the widget is created in each of them
KeepCreated(nw, panels, f) ==
    [key \in DOMAIN nw |->
        IF PanelOf(key) \in panels THEN nw[key] ELSE DefaultWidgets(f)[key]]

(***************************************************************************)
(* State                                                                   *)
(***************************************************************************)
VARIABLES
    w,           \* the widget values
    fields,      \* module-level: variable name -> field number
    colorsets,   \* module-level: colorset name -> colours
    global_epw,  \* module-level: the loaded EPW object
    page,        \* what the last execution of the script put on the page
    runs         \* interactions so far

vars == <<w, fields, colorsets, global_epw, page, runs>>

PageOf(o) ==
    [charts |-> o.charts, tables |-> o.tables, exc |-> o.exc,
     hourly_data_figure |-> o.hourly_data_figure,
     degree_days_text |-> o.degree_days_text, panels |-> o.panels]

\* first execution: no interaction yet
Init ==
    \E o \in {Script(DefaultWidgets(get_fields), get_fields, LoadColorsets,
                     LoadEPW)} :
        /\ fields = get_fields
        /\ w = KeepCreated(DefaultWidgets(get_fields), o.panels, get_fields)
        /\ colorsets = o.colorsets
        /\ global_epw = o.epw
        /\ page = PageOf(o)
        /\ runs = 0

\* the script runs again with the new widget values
Rerun(nw) ==
    /\ runs < MaxRuns
    /\ nw # w
    /\ \E o \in {Script(nw, fields, colorsets, global_epw)} :
        /\ w' = KeepCreated(nw, o.panels, fields)
        /\ colorsets' = o.colorsets
        /\ global_epw' = o.epw
        /\ page' = PageOf(o)
        /\ runs' = runs + 1
        /\ UNCHANGED fields

\* the user can only act on a widget the last execution created
Created(key) == PanelOf(key) \in page.panels

Set(key, v) == Created(key) /\ Rerun([w EXCEPT ![key] = v])

SelectGlobalColorset == \E v \in ColorsetOptions : Set("global_colorset_selector", v)
ToggleColorSwitch == Set("color_switch", ~w.color_switch)
SelectHourlyVariable == \E v \in Selectable(fields) : Set("hourly_data", v)
EnterConditionalStatement ==
    \E v \in CondStatements : Set("hourly_data_conditonal_statement", v)
EnterMin == \E v \in Texts : Set("hourly_data_min", v)
EnterMax == \E v \in Texts : Set("hourly_data_max", v)
SetHourlyPeriod ==
    \/ \E k \in HourlyPeriodKeys.m, v \in Months : Set(k, v)
    \/ \E k \in HourlyPeriodKeys.d, v \in Days : Set(k, v)
    \/ \E k \in HourlyPeriodKeys.h, v \in Hours : Set(k, v)
SelectDailyVariable == \E v \in Selectable(fields) : Set("daily_data_selected", v)
SelectDiurnalVariable ==
    \E v \in Selectable(fields) : Set("diurnal_average_chart_hourly_selected", v)
ToggleBarCheckbox ==
    \E i \in 1..NumFields :
        Set("bar_chart_selection",
            [w.bar_chart_selection EXCEPT ![i] = ~@])
SelectBarDataType ==
    \E i \in 1..Len(bar_chart_data_types) :
        Set("bar_chart_data_type", bar_chart_data_types[i])
ToggleBarStack == Set("bar_chart_stack", ~w.bar_chart_stack)
SetHeatBase == \E v \in HeatBases : Set("degree_days_heat_base", v)
SetCoolBase == \E v \in CoolBases : Set("degree_days_cool_base", v)
ToggleDegreeDaysStack == Set("degree_days_stack", ~w.degree_days_stack)
SetWindrosePeriod ==
    \/ \E k \in WindrosePeriodKeys.m, v \in Months : Set(k, v)
    \/ \E k \in WindrosePeriodKeys.d, v \in Days : Set(k, v)
    \/ \E k \in WindrosePeriodKeys.h, v \in Hours : Set(k, v)
TogglePsyLoadData == Set("psy_load_data", ~w.psy_load_data)
SelectPsyVariable == \E v \in Selectable(fields) : Set("psy_selected", v)
TogglePsyDrawPolygons == Set("psy_draw_polygons", ~w.psy_draw_polygons)
SelectPsyStrategy ==
    \E i \in 1..Len(psy_strategy_options) :
        Set("psy_selected_strategy", psy_strategy_options[i])

Next ==
    \/ SelectGlobalColorset
    \/ ToggleColorSwitch
    \/ SelectHourlyVariable
    \/ EnterConditionalStatement
    \/ EnterMin
    \/ EnterMax
    \/ SetHourlyPeriod
    \/ SelectDailyVariable
    \/ SelectDiurnalVariable
    \/ ToggleBarCheckbox
    \/ SelectBarDataType
    \/ ToggleBarStack
    \/ SetHeatBase
    \/ SetCoolBase
    \/ ToggleDegreeDaysStack
    \/ SetWindrosePeriod
    \/ TogglePsyLoadData
    \/ SelectPsyVariable
    \/ TogglePsyDrawPolygons
    \/ SelectPsyStrategy

Spec == Init /\ [][Next]_vars

(***************************************************************************)
(* Properties                                                              *)
(***************************************************************************)
\* what get_hourly_data_figure returned in the last execution
HourlyResult == page.hourly_data_figure[1]
HourlyIsFigure == HourlyResult.type = "Figure"
HourlyMessage(msg) == HourlyResult.type = "str" /\ HourlyResult.s = msg

\* the chart of that name on the page, if any
OnPage(name) == {i \in 1..Len(page.charts) : page.charts[i].chart = name}

\* the three inputs of the Hourly Data tab, judged on the widget values
CondOutcome ==
    IF w.hourly_data_conditonal_statement = "" THEN "none"
    ELSE filter_by_conditional_statement(
             global_epw.data[fields.num[w.hourly_data]],
             w.hourly_data_conditonal_statement).exc
InvalidText(text) == text # <<>> /\ ~ParseFloat(text).ok
ParsedText(text) == text # <<>> /\ ParseFloat(text).ok
HourlyInputInvalid ==
    \/ CondOutcome # "none"
    \/ InvalidText(w.hourly_data_min)
    \/ InvalidText(w.hourly_data_max)

\* C1: whenever the conditional statement, the Min text or the Max text is
\* invalid, the execution does not raise and the page shows the returned
\* message string in the place of the hourly heatmap.
C1_MessageShownInPlaceOfHeatmap ==
    HourlyInputInvalid =>
        /\ page.exc = "none"
        /\ HourlyResult.type = "str"
        /\ \E i \in OnPage("hourly_data_figure") :
               page.charts[i].figure.type = "str"

\* C2 as stated: every invalid input yields its own message, whatever the
\* other two inputs are, and no message is returned when all three are empty
\* or valid.
C2_EachInvalidInputOwnMessage ==
    /\ InvalidText(w.hourly_data_min) => HourlyMessage("Invalid minimum value")
    /\ InvalidText(w.hourly_data_max) => HourlyMessage("Invalid maximum value")
    /\ CondOutcome = "ValueError" => HourlyMessage("Invalid conditonal statement")
    /\ CondOutcome = "AssertionError" =>
           HourlyMessage("No values found for that conditonal statement")
    /\ ~HourlyInputInvalid => HourlyIsFigure

\* C2 amended: the inputs are checked in the order conditional statement,
\* Min, Max and the first invalid one decides the message: a rejected
\* statement yields its message; an unparsable Min yields 'Invalid minimum
\* value' when the statement is empty or accepted; an unparsable Max yields
\* 'Invalid maximum value' when the statement and Min are empty or valid;
\* with all three empty or valid no message is returned.
C2_FirstInvalidInputMessage ==
    /\ CondOutcome = "ValueError" => HourlyMessage("Invalid conditonal statement")
    /\ CondOutcome = "AssertionError" =>
           HourlyMessage("No values found for that conditonal statement")
    /\ (CondOutcome = "none" /\ InvalidText(w.hourly_data_min)) =>
           HourlyMessage("Invalid minimum value")
    /\ (CondOutcome = "none" /\ ~InvalidText(w.hourly_data_min)
        /\ InvalidText(w.hourly_data_max)) =>
           HourlyMessage("Invalid maximum value")
    /\ ~HourlyInputInvalid => HourlyIsFigure

\* an unparsable Max typed next to a valid Min has produced its message
C2_Witness ==
    /\ CondOutcome = "none"
    /\ ParsedText(w.hourly_data_min)
    /\ InvalidText(w.hourly_data_max)
    /\ HourlyMessage("Invalid maximum value")

\* C3: the page of every execution is the page an execution with the same
\* widget values produces right after loading, so two executions with the
\* same widget values show the same figures (data, colours, legend bounds,
\* layout) whatever was executed in between.
C3_SameWidgetsSameFigures ==
    page = PageOf(Script(w, get_fields, LoadColorsets, LoadEPW))

\* the default widget values again, after an execution with other values
C3_Witness ==
    /\ runs = 2
    /\ w = DefaultWidgets(fields)
    /\ page.exc = "none"
    /\ OnPage("psy_chart_figure") # {}

\* C4: after any sequence of executions the colorsets table, the fields
\* mapping and the series of the EPW object are as they were after loading.
C4_SharedDataOnlyRead ==
    /\ colorsets = LoadColorsets
    /\ fields = get_fields
    /\ global_epw = LoadEPW

\* an execution that reversed the colours, filtered by a conditional
\* statement and computed the degree days
C4_Witness ==
    /\ runs > 0
    /\ w.color_switch
    /\ w.hourly_data_conditonal_statement # ""
    /\ HourlyIsFigure
    /\ page.degree_days_text # None

\* C5: in the plotted heatmap the legend minimum is the number the Min text
\* parses to and the legend maximum the number the Max text parses to, for
\* every text that parses, 0 and negative numbers included.
C5_ParsedBoundsAreLegendBounds ==
    HourlyIsFigure =>
        /\ ParsedText(w.hourly_data_min) =>
               HourlyResult.legend_parameters.min =
                   Some(ParseFloat(w.hourly_data_min).v)
        /\ ParsedText(w.hourly_data_max) =>
               HourlyResult.legend_parameters.max =
                   Some(ParseFloat(w.hourly_data_max).v)

\* C6: an empty Min (Max) text leaves the legend minimum (maximum) of the
\* heatmap unset and never yields the Min (Max) error message; with the
\* statement empty or accepted and both texts empty a figure is returned.
C6_EmptyBoundLeftUnset ==
    /\ w.hourly_data_min = <<>> =>
           /\ ~HourlyMessage("Invalid minimum value")
           /\ HourlyIsFigure => HourlyResult.legend_parameters.min = None
    /\ w.hourly_data_max = <<>> =>
           /\ ~HourlyMessage("Invalid maximum value")
           /\ HourlyIsFigure => HourlyResult.legend_parameters.max = None
    /\ (CondOutcome = "none" /\ w.hourly_data_min = <<>>
        /\ w.hourly_data_max = <<>>) => HourlyIsFigure

\* a heatmap plotted with Min left empty and Max typed
C6_Witness ==
    /\ runs > 0
    /\ w.hourly_data_min = <<>>
    /\ ParsedText(w.hourly_data_max)
    /\ HourlyIsFigure
    /\ HourlyResult.legend_parameters.min = None
    /\ HourlyResult.legend_parameters.max # None

\* the analysis period selected in the Hourly Data tab
HourlyPeriod ==
    AnalysisPeriod(w.hourly_data_start_month, w.hourly_data_start_day,
                   w.hourly_data_start_hour, w.hourly_data_end_month,
                   w.hourly_data_end_day, w.hourly_data_end_hour)

\* C7: every plotted hour of the heatmap lies within the selected analysis
\* period, and with a non-empty accepted conditional statement the plotted
\* data is the period-filtered data restricted by that statement.
C7_PlottedDataWithinPeriod ==
    HourlyIsFigure =>
        /\ \A i \in 1..Len(HourlyResult.data) :
               IsTimeIncluded(HourlyPeriod, HourlyResult.data[i].time)
        /\ w.hourly_data_conditonal_statement # "" =>
               LET in_period(x) == IsTimeIncluded(HourlyPeriod, x.time)
                   satisfies(x) ==
                       CondEval(w.hourly_data_conditonal_statement, x.v)
               IN  HourlyResult.data =
                       SelectSeq(SelectSeq(
                           global_epw.data[fields.num[w.hourly_data]].values,
                           in_period), satisfies)

\* C8: for every colorset, get_colors returns the stored colours in stored
\* order with the switch off and in exactly reversed order with it on; the
\* reversal applied twice gives the stored order back, and the result has
\* the length and the colours of the stored colorset.  The legend of the
\* plotted heatmap carries those colours.
C8_GetColorsReversal ==
    /\ \A name \in DOMAIN colorsets :
           LET stored == colorsets[name]
               off == get_colors(FALSE, name, colorsets).colors
               on == get_colors(TRUE, name, colorsets).colors
               twice == get_colors(TRUE, name,
                                   [colorsets EXCEPT ![name] = on]).colors
           IN  /\ off = stored
               /\ Len(on) = Len(stored)
               /\ \A i \in 1..Len(stored) : on[i] = stored[Len(stored) + 1 - i]
               /\ twice = stored
               /\ {on[i] : i \in 1..Len(on)} =
                      {stored[i] : i \in 1..Len(stored)}
    /\ HourlyIsFigure =>
           LET stored == colorsets[w.global_colorset_selector]
               shown == HourlyResult.legend_parameters.colors
           IN  \A i \in 1..Len(stored) :
                   shown[i] = IF w.color_switch
                              THEN stored[Len(stored) + 1 - i] ELSE stored[i]

\* a heatmap plotted with the colours switched
C8_Witness ==
    /\ w.color_switch
    /\ HourlyIsFigure
    /\ HourlyResult.legend_parameters.colors[1] =
           colorsets[w.global_colorset_selector]
               [Len(colorsets[w.global_colorset_selector])]

\* the title the script passes to get_figure_config for each chart
ChartTitle(name) ==
    CASE name = "hourly_data_figure" -> w.hourly_data
      [] name = "hourly_line_chart_figure" -> w.daily_data_selected
      [] name = "daily_chart_figure" -> w.daily_data_selected
      [] name = "diurnal_average_chart_figure" -> "Dinurnal Chart_Cardiff"
      [] name = "per_hour_line_chart_figure" ->
            w.diurnal_average_chart_hourly_selected
      [] name = "bar_chart_figure" -> w.bar_chart_data_type
      [] name = "degree_days_figure" -> "Degree days_Cardiff"
      [] name = "windrose_figure" -> "Windrose_Cardiff"
      [] name = "psy_chart_figure" -> "Psychrometric_chart_Cardiff"

\* C9: every chart on the page carries the export-image configuration:
\* format 'png', scale 1, height and width unset, and as filename the title
\* passed for that chart; an execution that does not raise renders all nine.
C9_ChartsCarryExportConfig ==
    /\ \A i \in 1..Len(page.charts) :
           LET opt == page.charts[i].config.toImageButtonOptions
           IN  /\ opt.format = "png"
               /\ opt.scale = 1
               /\ opt.height = None
               /\ opt.width = None
               /\ opt.filename = ChartTitle(page.charts[i].chart)
    /\ page.exc = "none" => Len(page.charts) = 9

\* all nine charts rendered, after a variable other than the default was
\* selected for the heatmap
C9_Witness ==
    /\ Len(page.charts) = 9
    /\ w.hourly_data # "Dry Bulb Temperature"
    /\ page.charts[1].config.toImageButtonOptions.filename = w.hourly_data

\* C10: before any interaction every variable selector selects Dry Bulb
\* Temperature (first key of fields, field 6), exactly the Dry Bulb and Dew
\* Point Temperature checkboxes are checked, the base temperatures are 18
\* and 23, colour switch and stacking are off and both analysis periods
\* span month 1 day 1 hour 0 to month 12 day 31 hour 23.
C10_InitialDefaults ==
    runs = 0 =>
        /\ fields.keys[1] = "Dry Bulb Temperature"
        /\ fields.num["Dry Bulb Temperature"] = 6
        /\ \A k \in {"hourly_data", "daily_data_selected",
                     "diurnal_average_chart_hourly_selected", "psy_selected"} :
               w[k] = "Dry Bulb Temperature"
        /\ Len(w.bar_chart_selection) = Len(fields.keys)
        /\ \A i \in 1..Len(fields.keys) :
               w.bar_chart_selection[i] <=>
                   fields.keys[i] \in {"Dry Bulb Temperature",
                                       "Dew Point Temperature"}
        /\ CountTrue(w.bar_chart_selection) = 2
        /\ w.degree_days_heat_base = 18
        /\ w.degree_days_cool_base = 23
        /\ ~w.color_switch
        /\ ~w.bar_chart_stack
        /\ ~w.degree_days_stack
        /\ \A p \in {"hourly_data", "windrose"} :
               /\ w[p \o "_start_month"] = 1
               /\ w[p \o "_start_day"] = 1
               /\ w[p \o "_start_hour"] = 0
               /\ w[p \o "_end_month"] = 12
               /\ w[p \o "_end_day"] = 31
               /\ w[p \o "_end_hour"] = 23

\* the first execution has rendered the page
C10_Witness ==
    /\ runs = 0
    /\ page.exc = "none"
    /\ Len(page.charts) = 9


\* the figure of the chart of that name on the page
FigureOnPage(name) == page.charts[CHOOSE i \in OnPage(name) : TRUE].figure

\* the checked entries of bar_chart_selection and the place of entry i among
\* them
Checked == {i \in 1..Len(w.bar_chart_selection) : w.bar_chart_selection[i]}
PlaceAmongChecked(i) == Cardinality({j \in Checked : j <= i})

\* C11: bar_chart_selection always has 28 entries, one per key of fields,
\* and the monthly bar chart receives one series per checked entry, in field
\* order, the monthly average of that field for 'Monthly Average' and the
\* monthly total for 'Monthly Total'; unchecked fields give no series.
C11_BarChartPlotsCheckedVariables ==
    /\ Len(w.bar_chart_selection) = 28
    /\ Len(fields.keys) = 28
    /\ OnPage("bar_chart_figure") # {} =>
           LET data == FigureOnPage("bar_chart_figure").data
               var(i) == global_epw.data[fields.num[fields.keys[i]]]
           IN  /\ Len(data) = Cardinality(Checked)
               /\ \A i \in Checked :
                      data[PlaceAmongChecked(i)] =
                          IF w.bar_chart_data_type = "Monthly Average"
                          THEN average_monthly(var(i))
                          ELSE total_monthly(var(i))

\* monthly totals plotted after a checkbox was changed
C11_Witness ==
    /\ OnPage("bar_chart_figure") # {}
    /\ w.bar_chart_data_type = "Monthly Total"
    /\ Checked # {1, 2}
    /\ Checked # {}

\* C12: for every combination of checkbox states the user can reach, the
\* list of series get_bar_chart_figure passes to the monthly chart is not
\* empty.
C12_BarChartNeverEmpty ==
    OnPage("bar_chart_figure") # {} =>
        Len(FigureOnPage("bar_chart_figure").data) >= 1

\* the figure the Psychrometric Chart tab put on the page
PsyFigure == FigureOnPage("psy_chart_figure")

\* the strategy each option of the selectbox other than 'All' names
StrategyOfOption ==
    [opt \in {"Mass + Night Ventilation", "Occupant Use of Fans",
              "Capture Internal Heat", "Passive Solar Heating"} |->
        CASE opt = "Mass + Night Ventilation" -> "mas_night_ventilation"
          [] opt = "Occupant Use of Fans" -> "occupant_use_of_fans"
          [] opt = "Capture Internal Heat" -> "capture_internal_heat"
          [] opt = "Passive Solar Heating" -> "passive_solar_heating"]
ExpectedStrategies(opt) ==
    IF opt = "All"
    THEN <<"comfort", "evaporative_cooling", "mas_night_ventilation",
           "occupant_use_of_fans", "capture_internal_heat",
           "passive_solar_heating">>
    ELSE <<StrategyOfOption[opt]>>

\* C13: for every option of the passive-strategy selectbox,
\* get_psy_chart_figure has assigned strategies before it uses it: 'All'
\* gives the six strategies, every other option the single strategy it names;
\* no execution stops on the unassigned local, and the polygons drawn are
\* those of the selected option.
C13_StrategiesAssignedForEveryOption ==
    /\ \A k \in 1..Len(psy_strategy_options) :
           Strategies(psy_strategy_options[k]) =
               Some(ExpectedStrategies(psy_strategy_options[k]))
    /\ page.exc # "UnboundLocalError"
    /\ page.exc = "none" => OnPage("psy_chart_figure") # {}
    /\ (OnPage("psy_chart_figure") # {} /\ w.psy_draw_polygons) =>
           PsyFigure.strategies = Some(ExpectedStrategies(w.psy_selected_strategy))

\* the polygons of all six strategies are drawn
C13_Witness ==
    /\ OnPage("psy_chart_figure") # {}
    /\ w.psy_draw_polygons
    /\ w.psy_selected_strategy = "All"
    /\ Len(PsyFigure.strategies[1]) = 6

\* the figure of the tab for a given strategy option, the other widgets as
\* they are
PsyFigureWith(opt) ==
    update_layout(
        get_psy_chart_figure(
            global_epw, w.global_colorset_selector, opt, w.psy_load_data,
            w.psy_draw_polygons,
            IF w.psy_load_data
            THEN Some(global_epw.data[fields.num[w.psy_selected]].values)
            ELSE None,
            w.color_switch, LoadColorsets).ret,
        0, 0, FALSE)

\* C14: the psychrometric plot receives the loaded variable exactly when
\* 'Load data' is checked (data is None exactly when it is unchecked), and
\* the polygon model, the strategies and the solar data exactly when 'Draw
\* comfort polygons' is checked; with the polygons unchecked the selected
\* strategy has no effect on the figure.
C14_PlotArgumentsFollowCheckboxes ==
    OnPage("psy_chart_figure") # {} =>
        /\ PsyFigure.data =
               IF w.psy_load_data
               THEN Some(global_epw.data[fields.num[w.psy_selected]].values)
               ELSE None
        /\ PsyFigure.data # None <=> w.psy_load_data
        /\ PsyFigure.polygon_pmv # None <=> w.psy_draw_polygons
        /\ PsyFigure.strategies # None <=> w.psy_draw_polygons
        /\ PsyFigure.solar_data # None <=> w.psy_draw_polygons
        /\ w.psy_draw_polygons =>
               PsyFigure.solar_data =
                   Some(global_epw.data[FieldOf("Direct Normal Radiation")].values)
        /\ ~w.psy_draw_polygons =>
               \A k \in 1..Len(psy_strategy_options) :
                   PsyFigureWith(psy_strategy_options[k]) = PsyFigure

\* both checkboxes checked: the plot has the data and the polygons
C14_Witness ==
    /\ OnPage("psy_chart_figure") # {}
    /\ w.psy_load_data
    /\ w.psy_draw_polygons
    /\ PsyFigure.data # None
    /\ PsyFigure.polygon_pmv # None

\* the tabs, the control panels of each and what each puts on the page
Tabs == {"hourly", "daily", "monthly", "degree", "windrose", "psy"}
TabPanels ==
    [tab \in Tabs |->
        CASE tab = "monthly" -> {"diurnal", "bar"}
          [] tab = "psy" -> {"psy", "psy_selected"}
          [] OTHER -> {tab}]
TabCharts ==
    [tab \in Tabs |->
        CASE tab = "hourly" -> {"hourly_data_figure"}
          [] tab = "daily" -> {"hourly_line_chart_figure", "daily_chart_figure"}
          [] tab = "monthly" -> {"diurnal_average_chart_figure",
                                 "per_hour_line_chart_figure",
                                 "bar_chart_figure"}
          [] tab = "degree" -> {"degree_days_figure"}
          [] tab = "windrose" -> {"windrose_figure"}
          [] tab = "psy" -> {"psy_chart_figure"}]
TabTables ==
    [tab \in Tabs |->
        IF tab = "psy" THEN {"Passive Strategy Explanation"} ELSE {}]

\* what a page shows outside a tab
OutsideTab(pg, tab) ==
    LET Other(c) == c.chart \notin TabCharts[tab]
        OtherTable(t) == t.table \notin TabTables[tab]
    IN  [charts |-> SelectSeq(pg.charts, Other),
         tables |-> SelectSeq(pg.tables, OtherTable),
         degree_days_text |-> IF tab = "degree" THEN None
                              ELSE pg.degree_days_text]

\* the widget values with the widgets of a tab as they are at the start
WithTabAtDefaults(tab) ==
    [key \in DOMAIN w |->
        IF PanelOf(key) \in TabPanels[tab]
        THEN DefaultWidgets(fields)[key] ELSE w[key]]

\* C15: what is rendered outside a tab does not depend on that tab's
\* widgets: for every tab, the figures of the other tabs and the Terminology
\* table on the page are those of the execution with the same widget values
\* but that tab's widgets at their defaults.
C15_TabsIndependent ==
    \A tab \in Tabs :
        OutsideTab(page, tab) =
            OutsideTab(PageOf(Script(WithTabAtDefaults(tab), get_fields,
                                     LoadColorsets, LoadEPW)), tab)

=============================================================================
